---- MODULE Spec2Model ----
(***************************************************************************)
(* News_MoodMap: the BigQuery tables of the world_mood dataset and the     *)
(* pipeline stages (processing.py, analytics.py) that replace them.        *)
(*                                                                         *)
(* A table is a set of rows (records); a pandas DataFrame or an ARRAY is a *)
(* sequence.  A nullable SQL value is <<>> (NULL) or <<v>>.  Text is a     *)
(* sequence of tokens.  Where SQL leaves an order or a choice unspecified  *)
(* (rows tied under ORDER BY, LIMIT without a total order, a scan without  *)
(* ORDER BY) every outcome is a possible successor.                        *)
(***************************************************************************)
EXTENDS Integers, Sequences, FiniteSets, TLC

VARIABLES
    status,                \* "loading", "running", "import_error", "aborted" or "complete"
    runs,                  \* the number of runs started so far
    gdeltv2,               \* what the run finds outside: gdelt-bq.gdeltv2 and the model endpoint
    gdelt_events_raw,      \* table written by ingestion.ingest_gdelt_events
    plan,                  \* the stage calls of this run, in the order of pipeline.main
    pc,                    \* index in plan of the next stage to call
    gen_model,             \* remote model: the responses it may give to each kind of prompt
    gdelt_events_enriched, \* table written by ingestion.enrich_with_gkg
    daily_country_topics,  \* table
    news_embeddings,       \* table (the embedding index)
    daily_top_entities,    \* table
    today_for_analogs,     \* table
    analogs_df,            \* DataFrame returned by run_analog_searches
    daily_analogs_flat,    \* table, in load order
    daily_analogs,         \* table
    normalized,            \* the CTE `normalized` of the last create_daily_briefings
    llm,                   \* the CTE `llm` of the last create_daily_briefings
    daily_briefings,       \* table
    parsed_scores,         \* the CTE `parsed_scores` of the last create_daily_moodmap
    daily_moodmap          \* table

vars == <<status, runs, gdeltv2, gdelt_events_raw, plan, pc, gen_model, gdelt_events_enriched, daily_country_topics,
          news_embeddings, daily_top_entities, today_for_analogs, analogs_df,
          daily_analogs_flat, daily_analogs, normalized, llm, daily_briefings,
          parsed_scores, daily_moodmap>>

-----------------------------------------------------------------------------
(* Bounds of the model *)

MaxDate == 3        \* event dates are 1..MaxDate
MaxEmb == 1         \* embeddings are the unit vectors at angle 0..MaxEmb times 60 degrees
MaxHeadline == 2    \* headline_count of an aggregate is 1..MaxHeadline
MaxRuns == 2        \* a run that aborted is started again until MaxRuns runs were started
MaxRaw == 2         \* the raw events table holds up to MaxRaw rows
MaxTags == 2        \* an event carries up to MaxTags theme tags and MaxTags person tags
MaxTextLen == 3     \* every sentiment response of up to MaxTextLen characters is tried

Dates == 1..MaxDate
Countries == {"A", "B", "C"}

(* Program parameters, scaled down to the size of the model *)

TOP_N == 2               \* config.TOP_N, top_n
ANALOG_TOPK == 2         \* config.ANALOG_TOPK, analog_topk
ANALOG_SNIP_CHARS == 5   \* config.ANALOG_SNIP_CHARS, in tokens
VECTOR_TOP_K == 4        \* top_k of VECTOR_SEARCH in fn_similar_to_day
CONTEXT_CHARS == 6       \* config.CONTEXT_CHARS, in tokens
ENTITY_LIMIT == 2        \* LIMIT 10 of the ARRAY_AGGs of create_daily_top_entities
WINDOW_DAYS == 1         \* INTERVAL 7 DAY
INGEST_DAYS == 2         \* INTERVAL 60 DAY of ingest_gdelt_events
GKG_THEMES == 2          \* LIMIT 50 of the themes array of enrich_with_gkg
GKG_PERSONS == 2         \* LIMIT 30 of the persons array of enrich_with_gkg
SAMPLE_URLS == 2         \* LIMIT 30 of ARRAY_AGG(DISTINCT url ...) in create_daily_country_topics
EMBED_CHARS == 8         \* SUBSTR(topic_doc, 1, 3000), in tokens

-----------------------------------------------------------------------------
(* SQL helpers *)

NULL == <<>>
Some(v) == <<v>>
IsNull(x) == x = <<>>

Min(a, b) == IF a <= b THEN a ELSE b

\* SUBSTR(text, 1, n)
Substr(text, n) == SubSeq(text, 1, Min(n, Len(text)))

\* the rows of sequence s as a set
Range(s) == {s[i] : i \in 1..Len(s)}

\* the injective sequences of length n over the set S
InjSeqs(S, n) == {q \in [1..n -> S] : \A i, j \in 1..n : i # j => q[i] # q[j]}

\* the key (event_date, country) of a row
RowKey(r) == <<r.event_date, r.country>>

\* MAX(event_date) over a table; NULL on an empty table
MaxEventDate(table) ==
    IF table = {} THEN NULL
    ELSE Some(CHOOSE d \in {r.event_date : r \in table} :
                  \A r \in table : r.event_date <= d)

\* DATE '<string>' and pd.to_datetime(<string>).dt.date: the date a string denotes
ParseDate(str) == CHOOSE d \in Dates : ToString(d) = str

\* one table per way to pick a row for each group: rowsOf[g] is the set of rows
\* the query can produce for group g
OneRowPerGroup(groups, rowsOf) ==
    {{f[g] : g \in groups} :
        f \in {h \in [groups -> UNION {rowsOf[g] : g \in groups}] :
                  \A g \in groups : h[g] \in rowsOf[g]}}

-----------------------------------------------------------------------------
(* Text *)

UrlTokens == {"https://u1", "http://u2"}

\* REGEXP_REPLACE(text, r'https?://\S+', '')
RECURSIVE StripUrls(_)
StripUrls(text) ==
    IF text = <<>> THEN <<>>
    ELSE IF Head(text) \in UrlTokens THEN StripUrls(Tail(text))
    ELSE <<Head(text)>> \o StripUrls(Tail(text))

\* SUBSTR(REGEXP_REPLACE(topic_doc, r'https?://\S+', ''), 1, n)
Snippet(topic_doc, n) == Substr(StripUrls(topic_doc), n)

\* the CONCAT that renders topic_doc in create_daily_country_topics
RenderTopicDoc(country, event_date, headline_count, sample_urls) ==
    <<"Country: ", country, " | Date: ", ToString(event_date),
      " | Headlines: ", ToString(headline_count), " | Sample URLs: ">> \o sample_urls

-----------------------------------------------------------------------------
(* The embedding index and fn_similar_to_day *)

\* Twice the cosine distance 1 - cos(60 * |a - b|) of two embeddings
CosineDistance(a, b) ==
    LET k == IF a >= b THEN a - b ELSE b - a
    IN  CASE k = 0 -> 0
          [] k = 1 -> 1
          [] k = 2 -> 3
          [] OTHER -> 4

\* VECTOR_SEARCH(TABLE index, 'embedding', query, top_k => k, distance_type => 'COSINE'):
\* the possible results, one set of (base, distance) rows per way to cut ties
VectorSearch(index, query, k) ==
    LET scored(q) == {[base |-> b, distance |-> CosineDistance(q, b.embedding)] : b \in index}
        top(S) == {T \in SUBSET S :
                      /\ Cardinality(T) = Min(k, Cardinality(S))
                      /\ \A t \in T : \A s \in S \ T : t.distance <= s.distance}
    IN  IF query = {} THEN {{}}
        ELSE UNION {top(scored(q)) : q \in query}

\* fn_similar_to_day(country_code, day): the possible result tables
FnSimilarToDay(index, country_code, day) ==
    LET matching == {r.embedding : r \in {x \in index :
                        x.country = country_code /\ x.event_date = day}}
        \* SELECT embedding ... LIMIT 1
        anchors == IF matching = {} THEN {{}} ELSE {{e} : e \in matching}
    IN  UNION {
          { { [event_date |-> vs.base.event_date, country |-> vs.base.country,
               topic_doc |-> vs.base.topic_doc, distance |-> vs.distance,
               id |-> vs.base.id] : vs \in {v \in T : v.base.event_date # day} }
            : T \in VectorSearch(index, anchor, VECTOR_TOP_K) }
          : anchor \in anchors }

\* variant: LIMIT k without the ORDER BY
OrderByDistanceLimit_Unordered(S, k) == InjSeqs(S, Min(k, Cardinality(S)))

\* ORDER BY distance ASC LIMIT k over a set of rows: the possible result sequences
OrderByDistanceLimit(S, k) ==
    LET n == Min(k, Cardinality(S))
    IN  {q \in InjSeqs(S, n) :
            /\ \A i, j \in 1..n : i < j => q[i].distance <= q[j].distance
            /\ \A s \in S \ Range(q) : \A i \in 1..n : q[i].distance <= s.distance}

\* variant: the WHERE clause repeats the function's own filter
SimQueryWhere_NotSameDay(r, event_date) == r.event_date # ParseDate(ToString(event_date))

\* the WHERE clause of sim_query: event_date < DATE '{event_date}'
SimQueryWhere(r, event_date) == r.event_date < ParseDate(ToString(event_date))

\* sim_query of run_analog_searches for one cohort row: the possible results
SimQuery(index, country, event_date) ==
    UNION {
      LET kept == {r \in F : SimQueryWhere(r, event_date)}
          rows == {[event_date |-> ToString(event_date), country |-> country,
                    past_date |-> r.event_date,
                    snippet |-> Snippet(r.topic_doc, ANALOG_SNIP_CHARS),
                    distance |-> r.distance] : r \in kept}
      IN  OrderByDistanceLimit(rows, ANALOG_TOPK)
      : F \in FnSimilarToDay(index, country, event_date) }

\* all_results after the loop over `order`, given each row's query result
RECURSIVE AllResults(_, _)
AllResults(order, result) ==
    IF order = <<>> THEN <<>>
    ELSE result[Head(order)] \o AllResults(Tail(order), result)

-----------------------------------------------------------------------------
(* The remote generative model *)

\* gen_model before create_remote_models: no prompt is answered
NoModel == [briefing |-> {}, sentiment |-> {}, summary |-> {}]

\* a row ML.GENERATE_TEXT returns, as the query reads it: the flattened result
\* column and the values of the four JSON paths of TO_JSON_STRING(t)
Response(llm_result, parts_text, content_text, predictions, text) ==
    [ml_generate_text_llm_result |-> llm_result,
     candidates_content_parts_text |-> parts_text,
     candidates_content_text |-> content_text,
     predictions_content |-> predictions,
     text |-> text]

\* ML.GENERATE_TEXT(MODEL gen_model, prompts): one response row per prompt row;
\* the possible assignments of responses to the keys of the prompt rows
GenerateText(responses, keys) == [keys -> responses]

-----------------------------------------------------------------------------
(* Stages *)

AtStage(name) == status = "running" /\ pc <= Len(plan) /\ plan[pc] = name

\* analytics.run_analog_searches
RunAnalogSearches ==
    /\ AtStage("run_analog_searches")
    /\ \E order \in InjSeqs(today_for_analogs, Cardinality(today_for_analogs)) :
       \E result \in [today_for_analogs -> UNION {SimQuery(news_embeddings, r.country, r.event_date)
                                                     : r \in today_for_analogs}] :
          /\ \A r \in today_for_analogs :
                result[r] \in SimQuery(news_embeddings, r.country, r.event_date)
          /\ analogs_df' = AllResults(order, result)
    /\ pc' = pc + 1
    /\ UNCHANGED <<status, runs, gdeltv2, gdelt_events_raw, plan, gen_model, gdelt_events_enriched, daily_country_topics,
                   news_embeddings, daily_top_entities, today_for_analogs,
                   daily_analogs_flat, daily_analogs, normalized, llm, daily_briefings,
                   parsed_scores, daily_moodmap>>

\* pd.to_datetime(df[...]).dt.date on both date columns of the DataFrame
ToDateColumns(df) ==
    [i \in 1..Len(df) |->
        [event_date |-> ParseDate(df[i].event_date), country |-> df[i].country,
         past_date |-> df[i].past_date, snippet |-> df[i].snippet,
         distance |-> df[i].distance]]

\* CONCAT(CAST(a.past_date AS STRING), ': ', a.snippet)
AnalogLine(a) == <<ToString(a.past_date), ": ">> \o a.snippet

\* ARRAY_TO_STRING(lines, '\n- ')
RECURSIVE ArrayToString(_)
ArrayToString(lines) ==
    IF lines = <<>> THEN <<>>
    ELSE IF Len(lines) = 1 THEN lines[1]
    ELSE lines[1] \o <<"\n- ">> \o ArrayToString(Tail(lines))

\* variant: ARRAY_AGG ... ORDER BY distance DESC LIMIT k
ArrayAggAnalogs_Desc(flat, idx, k) ==
    LET n == Min(k, Cardinality(idx))
        picks == {q \in InjSeqs(idx, n) :
                    /\ \A i, j \in 1..n : i < j => flat[q[i]].distance >= flat[q[j]].distance
                    /\ \A s \in idx \ Range(q) :
                          \A i \in 1..n : flat[q[i]].distance >= flat[s].distance}
    IN  {[i \in 1..n |-> [past_date |-> flat[q[i]].past_date,
                          snippet |-> flat[q[i]].snippet,
                          distance |-> flat[q[i]].distance]] : q \in picks}

\* ARRAY_AGG(STRUCT(past_date, snippet, distance) ORDER BY distance ASC LIMIT k)
\* over the rows idx of the flat table: the possible arrays
ArrayAggAnalogs(flat, idx, k) ==
    LET n == Min(k, Cardinality(idx))
        picks == {q \in InjSeqs(idx, n) :
                    /\ \A i, j \in 1..n : i < j => flat[q[i]].distance <= flat[q[j]].distance
                    /\ \A s \in idx \ Range(q) :
                          \A i \in 1..n : flat[q[i]].distance <= flat[s].distance}
    IN  {[i \in 1..n |-> [past_date |-> flat[q[i]].past_date,
                          snippet |-> flat[q[i]].snippet,
                          distance |-> flat[q[i]].distance]] : q \in picks}

\* ARRAY(SELECT CONCAT(...) FROM UNNEST(analogs) AS a ORDER BY a.distance ASC),
\* joined: the possible texts
AnalogsTxt(analogs) ==
    LET n == Len(analogs)
        orders == {p \in InjSeqs(1..n, n) :
                     \A i, j \in 1..n : i < j => analogs[p[i]].distance <= analogs[p[j]].distance}
    IN  {ArrayToString([i \in 1..n |-> AnalogLine(analogs[p[i]])]) : p \in orders}

\* the CREATE OR REPLACE TABLE daily_analogs query: the possible tables
DailyAnalogsQuery(flat, k) ==
    LET groups == {<<flat[i].event_date, flat[i].country>> : i \in 1..Len(flat)}
        idx(g) == {i \in 1..Len(flat) : <<flat[i].event_date, flat[i].country>> = g}
        rowsOf == [g \in groups |->
                     {[event_date |-> g[1], country |-> g[2], analogs |-> a, analogs_txt |-> t]
                        : <<a, t>> \in UNION {{a2} \X AnalogsTxt(a2)
                                                : a2 \in ArrayAggAnalogs(flat, idx(g), k)}}]
    IN  OneRowPerGroup(groups, rowsOf)

\* variant: write_disposition WRITE_APPEND
LoadTable_Append(table, df) == table \o df

\* client.load_table_from_dataframe(df, table_id) with write_disposition
\* WRITE_TRUNCATE: the table after the load job
LoadTable(table, df) == df

\* analytics.save_daily_analogs
SaveDailyAnalogs ==
    /\ AtStage("save_daily_analogs")
    /\ daily_analogs_flat' = LoadTable(daily_analogs_flat, ToDateColumns(analogs_df))
    /\ daily_analogs' \in DailyAnalogsQuery(daily_analogs_flat', ANALOG_TOPK)
    /\ pc' = pc + 1
    /\ UNCHANGED <<status, runs, gdeltv2, gdelt_events_raw, plan, gen_model, gdelt_events_enriched, daily_country_topics,
                   news_embeddings, daily_top_entities, today_for_analogs, analogs_df,
                   normalized, llm, daily_briefings, parsed_scores, daily_moodmap>>

\* a row of news_embeddings, as generate_news_embeddings writes it
EmbeddingRow(event_date, country, topic_doc, embedding) ==
    [event_date |-> event_date, country |-> country,
     topic_doc |-> Substr(topic_doc, EMBED_CHARS), embedding |-> embedding,
     id |-> <<country, "-", ToString(event_date)>>]

\* processing.generate_news_embeddings: the remote embedding model gives every
\* content some embedding
GenerateNewsEmbeddings ==
    /\ AtStage("generate_news_embeddings")
    /\ \E e \in [daily_country_topics -> 0..MaxEmb] :
          news_embeddings' = {EmbeddingRow(r.event_date, r.country, r.topic_doc, e[r])
                                : r \in daily_country_topics}
    /\ pc' = pc + 1
    /\ UNCHANGED <<status, runs, gdeltv2, gdelt_events_raw, plan, gen_model, gdelt_events_enriched, daily_country_topics,
                   daily_top_entities, today_for_analogs, analogs_df,
                   daily_analogs_flat, daily_analogs, normalized, llm, daily_briefings,
                   parsed_scores, daily_moodmap>>

\* variant: ORDER BY headline_count ASC LIMIT n
OrderByHeadlineLimit_Asc(S, n) ==
    {T \in SUBSET S :
        /\ Cardinality(T) = Min(n, Cardinality(S))
        /\ \A t \in T : \A x \in S \ T : t.headline_count <= x.headline_count}

\* ORDER BY headline_count DESC LIMIT n over a set of rows: the possible results
OrderByHeadlineLimit(S, n) ==
    {T \in SUBSET S :
        /\ Cardinality(T) = Min(n, Cardinality(S))
        /\ \A t \in T : \A x \in S \ T : t.headline_count >= x.headline_count}

\* FROM daily_country_topics dct JOIN latest ON dct.event_date = latest.d
JoinLatest(dct) == {r \in dct : MaxEventDate(dct) = Some(r.event_date)}

\* the query of create_today_for_analogs: the possible tables
TodayForAnalogsQuery(dct, top_n) ==
    {{[event_date |-> r.event_date, country |-> r.country] : r \in T}
       : T \in OrderByHeadlineLimit(JoinLatest(dct), top_n)}

\* analytics.create_today_for_analogs
CreateTodayForAnalogs ==
    /\ AtStage("create_today_for_analogs")
    /\ today_for_analogs' \in TodayForAnalogsQuery(daily_country_topics, TOP_N)
    /\ pc' = pc + 1
    /\ UNCHANGED <<status, runs, gdeltv2, gdelt_events_raw, plan, gen_model, gdelt_events_enriched, daily_country_topics,
                   news_embeddings, daily_top_entities, analogs_df, daily_analogs_flat,
                   daily_analogs, normalized, llm, daily_briefings, parsed_scores,
                   daily_moodmap>>

\* variant: daily_analogs is joined with an inner JOIN
JoinAnalogs_Inner(dct_rows, analogs) ==
    {[event_date |-> r.event_date, country |-> r.country,
      headline_count |-> r.headline_count,
      ctx |-> Snippet(r.topic_doc, CONTEXT_CHARS),
      analogs_txt |-> Some(a.analogs_txt)]
       : <<r, a>> \in {x \in dct_rows \X analogs :
                         x[1].event_date = x[2].event_date /\ x[1].country = x[2].country}}

\* the CTE to_summarize before its ORDER BY and LIMIT: the rows of the latest date
\* LEFT JOINed with daily_analogs (the columns of daily_top_entities only feed the
\* prompt text and are left out)
JoinAnalogs(dct_rows, analogs) ==
    LET matches(r) == {a \in analogs : a.event_date = r.event_date /\ a.country = r.country}
        txts(r) == IF matches(r) = {} THEN {NULL}
                   ELSE {Some(a.analogs_txt) : a \in matches(r)}
    IN  {[event_date |-> r.event_date, country |-> r.country,
          headline_count |-> r.headline_count,
          ctx |-> Snippet(r.topic_doc, CONTEXT_CHARS),
          analogs_txt |-> t]
           : <<r, t>> \in UNION {{r2} \X txts(r2) : r2 \in dct_rows}}

\* COALESCE(analogs_txt, 'None')
CoalesceNone(analogs_txt) == IF IsNull(analogs_txt) THEN <<"None">> ELSE analogs_txt[1]

\* the CTE normalized: the possible row sets
NormalizedQuery(dct, analogs, top_n) ==
    {{[event_date |-> r.event_date, country |-> r.country,
       headline_count |-> r.headline_count, ctx |-> r.ctx,
       analogs_txt |-> CoalesceNone(r.analogs_txt)] : r \in T}
       : T \in OrderByHeadlineLimit(JoinAnalogs(JoinLatest(dct), analogs), top_n)}

\* variant: the flattened result column is tried last
BriefingText_ResultLast(t) ==
    LET paths == <<t.candidates_content_parts_text, t.candidates_content_text,
                   t.predictions_content, t.text, t.ml_generate_text_llm_result>>
        found == {i \in 1..Len(paths) : ~IsNull(paths[i])}
    IN  IF found = {} THEN NULL
        ELSE paths[CHOOSE i \in found : \A j \in found : i <= j]

\* the COALESCE of the CTE final: the first non-null of the five paths
BriefingText(t) ==
    LET paths == <<t.ml_generate_text_llm_result, t.candidates_content_parts_text,
                   t.candidates_content_text, t.predictions_content, t.text>>
        found == {i \in 1..Len(paths) : ~IsNull(paths[i])}
    IN  IF found = {} THEN NULL
        ELSE paths[CHOOSE i \in found : \A j \in found : i <= j]

\* variant: the final SELECT has no WHERE clause
FinalWhere_None(briefing_text) == TRUE

\* WHERE briefing_text IS NOT NULL
FinalWhere(briefing_text) == ~IsNull(briefing_text)

\* analytics.create_daily_briefings
CreateDailyBriefings ==
    /\ AtStage("create_daily_briefings")
    /\ normalized' \in NormalizedQuery(daily_country_topics, daily_analogs, TOP_N)
    /\ \E t \in GenerateText(gen_model.briefing,
                               {<<r.event_date, r.country>> : r \in normalized'}) :
          llm' = {[event_date |-> r.event_date, country |-> r.country,
                   t |-> t[<<r.event_date, r.country>>]] : r \in normalized'}
    /\ daily_briefings' =
          {[event_date |-> r.event_date, country |-> r.country,
            briefing_text |-> BriefingText(r.t)]
             : r \in {x \in llm' : FinalWhere(BriefingText(x.t))}}
    /\ pc' = pc + 1
    /\ UNCHANGED <<status, runs, gdeltv2, gdelt_events_raw, plan, gen_model, gdelt_events_enriched, daily_country_topics,
                   news_embeddings, daily_top_entities, today_for_analogs, analogs_df,
                   daily_analogs_flat, daily_analogs, parsed_scores, daily_moodmap>>

-----------------------------------------------------------------------------
(* create_daily_moodmap: text is a sequence of one-character strings, a number *)
(* is a fraction [num, den]                                                    *)

Digits == {"0", "1", "2", "3", "4", "5", "6", "7", "8", "9"}

DigitValue(ch) ==
    CASE ch = "0" -> 0 [] ch = "1" -> 1 [] ch = "2" -> 2 [] ch = "3" -> 3
      [] ch = "4" -> 4 [] ch = "5" -> 5 [] ch = "6" -> 6 [] ch = "7" -> 7
      [] ch = "8" -> 8 [] ch = "9" -> 9

\* the end of the longest run of digits of text that starts at position i (i - 1
\* when text holds no digit there): the greedy \d+
RECURSIVE DigitRunEnd(_, _)
DigitRunEnd(text, i) ==
    IF i <= Len(text) /\ text[i] \in Digits THEN DigitRunEnd(text, i + 1) ELSE i - 1

\* the end of the match of -?\d+\.\d+ that starts at position i; 0 when none does
MatchEnd(text, i) ==
    LET d == IF i <= Len(text) /\ text[i] = "-" THEN i + 1 ELSE i
        e == DigitRunEnd(text, d)
        f == DigitRunEnd(text, e + 2)
    IN  IF e >= d /\ e + 1 <= Len(text) /\ text[e + 1] = "." /\ f >= e + 2 THEN f ELSE 0

\* variant: the pattern is anchored at the start of the text
RegexpExtract_Anchored(text) ==
    IF IsNull(text) \/ MatchEnd(text[1], 1) = 0 THEN NULL
    ELSE Some(SubSeq(text[1], 1, MatchEnd(text[1], 1)))

\* REGEXP_EXTRACT(llm_text, r"-?\d+\.\d+"): the leftmost match; NULL when there
\* is none or the text is NULL
RegexpExtract(text) ==
    IF IsNull(text) THEN NULL
    ELSE LET starts == {i \in 1..Len(text[1]) : MatchEnd(text[1], i) > 0}
         IN  IF starts = {} THEN NULL
             ELSE LET i == CHOOSE k \in starts : \A j \in starts : k <= j
                  IN  Some(SubSeq(text[1], i, MatchEnd(text[1], i)))

RECURSIVE DigitsValue(_)
DigitsValue(ds) ==
    IF ds = <<>> THEN 0
    ELSE 10 * DigitsValue(SubSeq(ds, 1, Len(ds) - 1)) + DigitValue(ds[Len(ds)])

RECURSIVE Pow10(_)
Pow10(n) == IF n = 0 THEN 1 ELSE 10 * Pow10(n - 1)

\* variant: a missing sentiment is replaced by zero
SafeCastFloat_DefaultZero(str) ==
    IF IsNull(str) THEN Some([num |-> 0, den |-> 1])
    ELSE LET m == str[1]
             neg == m[1] = "-"
             body == IF neg THEN Tail(m) ELSE m
             dot == CHOOSE i \in 1..Len(body) : body[i] = "."
             frac == SubSeq(body, dot + 1, Len(body))
             n == DigitsValue(SubSeq(body, 1, dot - 1)) * Pow10(Len(frac)) + DigitsValue(frac)
         IN  Some([num |-> IF neg THEN 0 - n ELSE n, den |-> Pow10(Len(frac))])

\* SAFE_CAST(<match> AS FLOAT64)
SafeCastFloat(str) ==
    IF IsNull(str) THEN NULL
    ELSE LET m == str[1]
             neg == m[1] = "-"
             body == IF neg THEN Tail(m) ELSE m
             dot == CHOOSE i \in 1..Len(body) : body[i] = "."
             frac == SubSeq(body, dot + 1, Len(body))
             n == DigitsValue(SubSeq(body, 1, dot - 1)) * Pow10(Len(frac)) + DigitsValue(frac)
         IN  Some([num |-> IF neg THEN 0 - n ELSE n, den |-> Pow10(Len(frac))])

Abs(n) == IF n < 0 THEN 0 - n ELSE n

\* ROUND(n / d, 0) for d > 0: halfway cases are rounded away from zero
RoundDiv(n, d) ==
    LET q == (2 * Abs(n) + d) \div (2 * d)
    IN  IF n < 0 THEN 0 - q ELSE q

\* variant: avg_tone is blended without the division by 10
MoodScore_ToneUnscaled(sentiment_score, avg_tone) ==
    IF IsNull(sentiment_score) \/ IsNull(avg_tone) THEN NULL
    ELSE LET s == sentiment_score[1]
             t == avg_tone[1]
         IN  Some(RoundDiv(s.num * t.den * 10000 + t.num * s.den * 10,
                           2 * s.den * t.den))

\* ROUND((sentiment_score + avg_tone / 10) / 2, 4) in ten-thousandths;
\* avg_tone is a fraction of thousandths
MoodScore(sentiment_score, avg_tone) ==
    IF IsNull(sentiment_score) \/ IsNull(avg_tone) THEN NULL
    ELSE LET s == sentiment_score[1]
             t == avg_tone[1]
         IN  Some(RoundDiv(s.num * t.den * 10000 + t.num * s.den,
                           2 * s.den * t.den))

\* variant: the final SELECT has no WHERE clause
MoodWhere_None(mood_score) == TRUE

\* WHERE mood_score IS NOT NULL
MoodWhere(mood_score) == ~IsNull(mood_score)

\* the CTE joined_data: the briefings of the latest briefing date LEFT JOINed with
\* daily_country_topics (top_themes only rides along and is left out)
JoinedData(briefings, dct) ==
    LET tones(b) == {g.avg_tone : g \in {x \in dct : RowKey(x) = RowKey(b)}}
    IN  {[event_date |-> b.event_date, country |-> b.country,
          briefing_text |-> b.briefing_text, avg_tone |-> t]
           : <<b, t>> \in UNION {{b2} \X (IF tones(b2) = {} THEN {NULL} ELSE tones(b2))
                                   : b2 \in JoinLatest(briefings)}}

\* analytics.create_daily_moodmap
CreateDailyMoodmap ==
    /\ AtStage("create_daily_moodmap")
    /\ LET joined == JoinedData(daily_briefings, daily_country_topics)
           keys == {RowKey(r) : r \in joined}
       IN  \E t \in GenerateText(gen_model.sentiment, keys),
              u \in GenerateText(gen_model.summary, keys) :
             /\ parsed_scores' =
                   {[event_date |-> r.event_date, country |-> r.country,
                     avg_tone |-> r.avg_tone, briefing_text |-> r.briefing_text,
                     llm_text |-> t[RowKey(r)].ml_generate_text_llm_result,
                     sentiment_score |->
                        SafeCastFloat(RegexpExtract(t[RowKey(r)].ml_generate_text_llm_result))]
                      : r \in joined}
             /\ daily_moodmap' =
                   {[event_date |-> r.event_date, country |-> r.country,
                     mood_score |-> MoodScore(r.sentiment_score, r.avg_tone),
                     briefing_text |-> r.briefing_text,
                     summary_ref |-> u[RowKey(r)].ml_generate_text_llm_result]
                      : r \in {x \in parsed_scores' :
                                 MoodWhere(MoodScore(x.sentiment_score, x.avg_tone))}}
    /\ pc' = pc + 1
    /\ UNCHANGED <<status, runs, gdeltv2, gdelt_events_raw, plan, gen_model, gdelt_events_enriched, daily_country_topics,
                   news_embeddings, daily_top_entities, today_for_analogs, analogs_df,
                   daily_analogs_flat, daily_analogs, normalized, llm, daily_briefings>>

-----------------------------------------------------------------------------
(* create_daily_country_topics: a row of gdelt_events_raw has an id that tells *)
(* equal rows apart, a nullable country, url and tone (in thousandths)         *)

RECURSIVE SumTone(_)
SumTone(rows) ==
    IF rows = {} THEN 0
    ELSE LET r == CHOOSE x \in rows : TRUE IN r.tone[1] + SumTone(rows \ {r})

\* AVG(tone), MIN(tone) and MAX(tone): NULL tones are ignored, and the result is
\* NULL when there is none
AvgTone(rows) ==
    LET toned == {r \in rows : ~IsNull(r.tone)}
    IN  IF toned = {} THEN NULL
        ELSE Some([num |-> SumTone(toned), den |-> Cardinality(toned)])

MinTone(rows) ==
    LET toned == {r \in rows : ~IsNull(r.tone)}
    IN  IF toned = {} THEN NULL
        ELSE Some(CHOOSE t \in {r.tone[1] : r \in toned} : \A r \in toned : t <= r.tone[1])

MaxTone(rows) ==
    LET toned == {r \in rows : ~IsNull(r.tone)}
    IN  IF toned = {} THEN NULL
        ELSE Some(CHOOSE t \in {r.tone[1] : r \in toned} : \A r \in toned : t >= r.tone[1])

\* ARRAY_AGG(DISTINCT url IGNORE NULLS LIMIT n): the possible arrays
SampleUrls(rows, n) ==
    LET urls == {r.url[1] : r \in {x \in rows : ~IsNull(x.url)}}
    IN  InjSeqs(urls, Min(n, Cardinality(urls)))

\* the WHERE clause of the CTE country_day, with CURRENT_DATE() = MaxDate
CountryDayWhere(r) == ~IsNull(r.country) /\ r.event_date >= MaxDate - WINDOW_DAYS

\* the query of create_daily_country_topics: the possible tables.  CONCAT is NULL
\* (the empty text) when a tone statistic is NULL.  top_event_types only rides
\* along in topic_doc and is left out.
CountryDayQuery(raw) ==
    LET kept == {r \in raw : CountryDayWhere(r)}
        key(r) == <<r.event_date, r.country[1]>>
        groups == {key(r) : r \in kept}
        rowsOf == [g \in groups |->
            LET grp == {r \in kept : key(r) = g}
            IN  {[event_date |-> g[1], country |-> g[2],
                  headline_count |-> Cardinality(grp),
                  avg_tone |-> AvgTone(grp), min_tone |-> MinTone(grp),
                  max_tone |-> MaxTone(grp), sample_urls |-> u,
                  topic_doc |-> IF IsNull(AvgTone(grp)) THEN NULL
                                ELSE RenderTopicDoc(g[2], g[1], Cardinality(grp), u)]
                   : u \in SampleUrls(grp, SAMPLE_URLS)}]
    IN  OneRowPerGroup(groups, rowsOf)

\* processing.create_daily_country_topics
CreateDailyCountryTopics ==
    /\ AtStage("create_daily_country_topics")
    /\ daily_country_topics' \in CountryDayQuery(gdelt_events_raw)
    /\ pc' = pc + 1
    /\ UNCHANGED <<status, runs, gdeltv2, gdelt_events_raw, plan, gen_model,
                   gdelt_events_enriched, news_embeddings, daily_top_entities,
                   today_for_analogs, analogs_df, daily_analogs_flat, daily_analogs,
                   normalized, llm, daily_briefings, parsed_scores, daily_moodmap>>

-----------------------------------------------------------------------------
(* create_daily_top_entities: a tag is a sequence of one-character strings *)

UpperCase == <<"A", "B", "C", "D", "E", "F", "G", "H", "I", "J", "K", "L", "M", "N", "O", "P", "Q", "R", "S", "T", "U", "V", "W", "X", "Y", "Z">>
LowerCase == <<"a", "b", "c", "d", "e", "f", "g", "h", "i", "j", "k", "l", "m", "n", "o", "p", "q", "r", "s", "t", "u", "v", "w", "x", "y", "z">>

\* LOWER(str)
Lower(str) ==
    [i \in 1..Len(str) |->
        IF \E k \in 1..Len(UpperCase) : UpperCase[k] = str[i]
        THEN LowerCase[CHOOSE k \in 1..Len(UpperCase) : UpperCase[k] = str[i]]
        ELSE str[i]]

\* SPLIT(str, ',')[OFFSET(0)]
FirstSegment(str) ==
    LET commas == {i \in 1..Len(str) : str[i] = ","}
    IN  IF commas = {} THEN str
        ELSE SubSeq(str, 1, (CHOOSE i \in commas : \A j \in commas : i <= j) - 1)

\* variant: the tag is not lower-cased
EntityLabel_NoLower(tag) == FirstSegment(tag)

\* LOWER(SPLIT(tag, ',')[OFFSET(0)])
EntityLabel(tag) == Lower(FirstSegment(tag))

Denylist ==
    {<<"f", "a", "c", "e", "b", "o", "o", "k">>,
     <<"t", "w", "i", "t", "t", "e", "r">>,
     <<"i", "n", "s", "t", "a", "g", "r", "a", "m">>,
     <<"l", "i", "n", "k", "e", "d", "i", "n">>,
     <<"w", "h", "a", "t", "s", "a", "p", "p">>,
     <<"y", "o", "u", "t", "u", "b", "e">>}

\* the WHERE clause of the CTE clean_people (person is never NULL here)
CleanPeopleWhere(person) == Len(person) >= 3 /\ person \notin Denylist

\* event_date >= DATE_SUB(CURRENT_DATE(), INTERVAL 7 DAY), with CURRENT_DATE() = MaxDate
InWindow(event_date) == event_date >= MaxDate - WINDOW_DAYS

\* the CTE e: FROM gdelt_events_enriched, UNNEST(themes) t, UNNEST(persons) p is
\* one row per event, theme position and person position (src tells the rows apart)
Exploded(enriched) ==
    UNION {{[event_date |-> ev.event_date, country |-> ev.country,
             theme |-> EntityLabel(ev.themes[i]), person |-> EntityLabel(ev.persons[j]),
             src |-> <<ev, i, j>>]
              : i \in 1..Len(ev.themes), j \in 1..Len(ev.persons)}
             : ev \in {x \in enriched : InWindow(x.event_date)}}

\* the CTE theme_counts
ThemeCounts(e) ==
    {[event_date |-> k[1], country |-> k[2], theme |-> k[3],
      c |-> Cardinality({r \in e : <<r.event_date, r.country, r.theme>> = k})]
       : k \in {<<r.event_date, r.country, r.theme>> : r \in e}}

\* the CTE person_counts, over the CTE clean_people
PersonCounts(e) ==
    LET clean_people == {r \in e : CleanPeopleWhere(r.person)}
    IN  {[event_date |-> k[1], country |-> k[2], person |-> k[3],
          c |-> Cardinality({r \in clean_people : <<r.event_date, r.country, r.person>> = k})]
           : k \in {<<r.event_date, r.country, r.person>> : r \in clean_people}}

\* ARRAY_AGG(STRUCT(label, c) ORDER BY c DESC LIMIT n) over a set of structs: the
\* possible arrays
OrderByCountLimit(S, n) ==
    LET m == Min(n, Cardinality(S))
    IN  {q \in InjSeqs(S, m) :
            /\ \A i, j \in 1..m : i < j => q[i].c >= q[j].c
            /\ \A x \in S \ Range(q) : \A i \in 1..m : q[i].c >= x.c}

\* the query of create_daily_top_entities: the possible tables
TopEntitiesQuery(enriched) ==
    LET e == Exploded(enriched)
        tc == ThemeCounts(e)
        pcs == PersonCounts(e)
        groups == {RowKey(r) : r \in tc}
        themes(g) == OrderByCountLimit({[theme |-> r.theme, c |-> r.c]
                                          : r \in {x \in tc : RowKey(x) = g}}, ENTITY_LIMIT)
        \* LEFT JOIN top_people: a NULL array is stored as an empty array
        people(g) == IF {x \in pcs : RowKey(x) = g} = {} THEN {<<>>}
                     ELSE OrderByCountLimit({[person |-> r.person, c |-> r.c]
                                               : r \in {x \in pcs : RowKey(x) = g}},
                                            ENTITY_LIMIT)
        rowsOf == [g \in groups |->
                     {[event_date |-> g[1], country |-> g[2], top_themes |-> t, top_people |-> p]
                        : t \in themes(g), p \in people(g)}]
    IN  OneRowPerGroup(groups, rowsOf)

\* processing.create_daily_top_entities
CreateDailyTopEntities ==
    /\ AtStage("create_daily_top_entities")
    /\ daily_top_entities' \in TopEntitiesQuery(gdelt_events_enriched)
    /\ pc' = pc + 1
    /\ UNCHANGED <<status, runs, gdeltv2, gdelt_events_raw, plan, gen_model, gdelt_events_enriched, daily_country_topics,
                   news_embeddings, today_for_analogs, analogs_df, daily_analogs_flat,
                   daily_analogs, normalized, llm, daily_briefings, parsed_scores,
                   daily_moodmap>>

-----------------------------------------------------------------------------
(* Ingestion: gdeltv2.events is the public events table and gdeltv2.gkg the  *)
(* knowledge graph; a V2Themes or V2Persons value is NULL or the sequence of *)
(* the non-empty trimmed parts between its semicolons                        *)

Coalesce3(a, b, c) == IF ~IsNull(a) THEN a ELSE IF ~IsNull(b) THEN b ELSE c

\* the query of ingest_gdelt_events, with CURRENT_DATE() = MaxDate (admin1, lat,
\* lon and the event codes only ride along and are left out)
IngestQuery(events) ==
    {[id |-> e.GLOBALEVENTID,
      event_date |-> ParseDate(ToString(e.SQLDATE)),
      country |-> Coalesce3(e.ActionGeo_CountryCode, e.Actor1Geo_CountryCode,
                            e.Actor2Geo_CountryCode),
      url |-> e.SOURCEURL, tone |-> e.AvgTone]
       : e \in {x \in events : x.SQLDATE >= MaxDate - INGEST_DAYS}}

\* ARRAY(SELECT TRIM(x) FROM UNNEST(SPLIT(COALESCE(v, ''), ';')) x
\*       WHERE TRIM(x) != '' LIMIT n)
TagArray(v, n) == IF IsNull(v) THEN <<>> ELSE Substr(v[1], n)

\* the query of enrich_with_gkg: base LEFT JOIN gkg USING (url)
EnrichQuery(raw, gkg) ==
    LET base == {r \in raw : /\ r.event_date >= MaxDate - WINDOW_DAYS
                             /\ ~IsNull(r.country)
                             /\ ~IsNull(r.url)}
        docs == {g \in gkg : g.date >= MaxDate - WINDOW_DAYS}
        matches(b) == {g \in docs : g.DocumentIdentifier = b.url[1]}
        joined == UNION {IF matches(b) = {} THEN {<<b, NULL, NULL>>}
                         ELSE {<<b, g.V2Themes, g.V2Persons>> : g \in matches(b)}
                           : b \in base}
    IN  {[id |-> j[1].id, event_date |-> j[1].event_date, country |-> j[1].country[1],
          url |-> j[1].url[1], tone |-> j[1].tone,
          themes |-> TagArray(j[2], GKG_THEMES),
          persons |-> TagArray(j[3], GKG_PERSONS)] : j \in joined}

-----------------------------------------------------------------------------
(* The driver pipeline.py: its imports, then main                            *)

\* the functions each module of src/ defines
Defines ==
    [gcp_utils |-> {"init_gcp", "create_schema"},
     ingestion |-> {"ingest_gdelt_events", "enrich_with_gkg"},
     processing |-> {"create_daily_country_topics", "create_remote_models",
                     "generate_news_embeddings", "create_vector_search_functions",
                     "create_daily_top_entities"},
     analytics |-> {"create_today_for_analogs", "run_analog_searches",
                    "save_daily_analogs", "create_daily_briefings",
                    "create_daily_moodmap"},
     visualization |-> {"plot_global_moodmap"}]

\* the from ... import statements of pipeline.py, in order
Imports ==
    <<[module |-> "gcp_utils", names |-> {"init_gcp"}],
      [module |-> "ingestion", names |-> {"ingest_gdelt_events", "enrich_with_gkg"}],
      [module |-> "processing",
       names |-> {"create_daily_country_topics", "create_remote_models",
                  "generate_news_embeddings", "create_vector_search_functions",
                  "create_daily_top_entities", "create_today_for_analogs",
                  "run_analog_searches", "save_daily_analogs",
                  "create_daily_briefings", "create_daily_moodmap"}],
      [module |-> "visualization", names |-> {"plot_global_moodmap"}]>>

\* from m import n raises ImportError unless m defines n
ImportsResolve == \A i \in 1..Len(Imports) : Imports[i].names \subseteq Defines[Imports[i].module]

\* the stage calls of main, in order
MainPlan ==
    <<"init_gcp", "ingest_gdelt_events", "enrich_with_gkg", "create_daily_country_topics",
      "create_remote_models", "generate_news_embeddings", "create_vector_search_functions",
      "create_daily_top_entities", "create_today_for_analogs", "run_analog_searches",
      "save_daily_analogs", "create_daily_briefings", "create_daily_moodmap",
      "plot_global_moodmap">>

\* the tables, models and functions of the dataset that a stage reads
Reads ==
    [init_gcp |-> {},
     ingest_gdelt_events |-> {},
     enrich_with_gkg |-> {"gdelt_events_raw"},
     create_daily_country_topics |-> {"gdelt_events_raw"},
     create_remote_models |-> {},
     generate_news_embeddings |-> {"embedding_model", "daily_country_topics"},
     create_vector_search_functions |-> {"news_embeddings", "embedding_model"},
     create_daily_top_entities |-> {"gdelt_events_enriched"},
     create_today_for_analogs |-> {"daily_country_topics"},
     run_analog_searches |-> {"today_for_analogs", "fn_similar_to_day", "news_embeddings"},
     save_daily_analogs |-> {},
     create_daily_briefings |-> {"daily_country_topics", "daily_top_entities",
                                 "daily_analogs", "gen_model"},
     create_daily_moodmap |-> {"daily_briefings", "daily_country_topics",
                               "daily_top_entities", "gen_model"},
     plot_global_moodmap |-> {"daily_moodmap"}]

\* the tables, models and functions that a stage creates or replaces
Writes ==
    [init_gcp |-> {},
     ingest_gdelt_events |-> {"gdelt_events_raw"},
     enrich_with_gkg |-> {"gdelt_events_enriched"},
     create_daily_country_topics |-> {"daily_country_topics"},
     create_remote_models |-> {"embedding_model", "gen_model"},
     generate_news_embeddings |-> {"news_embeddings"},
     create_vector_search_functions |-> {"fn_similar_to_text", "fn_similar_to_day"},
     create_daily_top_entities |-> {"daily_top_entities"},
     create_today_for_analogs |-> {"today_for_analogs"},
     run_analog_searches |-> {},
     save_daily_analogs |-> {"daily_analogs_flat", "daily_analogs"},
     create_daily_briefings |-> {"daily_briefings"},
     create_daily_moodmap |-> {"daily_moodmap"},
     plot_global_moodmap |-> {}]

tables == <<gdelt_events_raw, gdelt_events_enriched, daily_country_topics, news_embeddings,
            daily_top_entities, today_for_analogs, analogs_df, daily_analogs_flat,
            daily_analogs, normalized, llm, daily_briefings, parsed_scores, daily_moodmap>>

\* python pipeline.py: the import statements run before main is defined and called
LoadPipeline ==
    /\ status = "loading"
    /\ status' = IF ImportsResolve THEN "running" ELSE "import_error"
    /\ UNCHANGED <<runs, gdeltv2, plan, pc, gen_model, tables>>

\* a stage that only sets up the client, defines the table functions over
\* news_embeddings or draws the figure: no table is written
StageWithoutTable(name) ==
    /\ AtStage(name)
    /\ pc' = pc + 1
    /\ UNCHANGED <<status, runs, gdeltv2, plan, gen_model, tables>>

\* gcp_utils.init_gcp
InitGcp == StageWithoutTable("init_gcp")

\* processing.create_vector_search_functions
CreateVectorSearchFunctions == StageWithoutTable("create_vector_search_functions")

\* visualization.plot_global_moodmap
PlotGlobalMoodmap == StageWithoutTable("plot_global_moodmap")

\* ingestion.ingest_gdelt_events
IngestGdeltEvents ==
    /\ AtStage("ingest_gdelt_events")
    /\ gdelt_events_raw' = IngestQuery(gdeltv2.events)
    /\ pc' = pc + 1
    /\ UNCHANGED <<status, runs, gdeltv2, plan, gen_model, gdelt_events_enriched,
                   daily_country_topics, news_embeddings, daily_top_entities,
                   today_for_analogs, analogs_df, daily_analogs_flat, daily_analogs,
                   normalized, llm, daily_briefings, parsed_scores, daily_moodmap>>

\* ingestion.enrich_with_gkg
EnrichWithGkg ==
    /\ AtStage("enrich_with_gkg")
    /\ gdelt_events_enriched' = EnrichQuery(gdelt_events_raw, gdeltv2.gkg)
    /\ pc' = pc + 1
    /\ UNCHANGED <<status, runs, gdeltv2, gdelt_events_raw, plan, gen_model,
                   daily_country_topics, news_embeddings, daily_top_entities,
                   today_for_analogs, analogs_df, daily_analogs_flat, daily_analogs,
                   normalized, llm, daily_briefings, parsed_scores, daily_moodmap>>

\* processing.create_remote_models: gen_model answers as its endpoint does
CreateRemoteModels ==
    /\ AtStage("create_remote_models")
    /\ gen_model' = gdeltv2.endpoint
    /\ pc' = pc + 1
    /\ UNCHANGED <<status, runs, gdeltv2, plan, tables>>

\* a query or a load job of the stage raises (the backend is unavailable) before
\* the stage has written anything: the exception leaves main
StageFails ==
    /\ status = "running"
    /\ pc <= Len(plan)
    /\ status' = "aborted"
    /\ UNCHANGED <<runs, gdeltv2, plan, pc, gen_model, tables>>

\* save_daily_analogs raises in its second query, after the load job
SaveDailyAnalogsFails ==
    /\ AtStage("save_daily_analogs")
    /\ daily_analogs_flat' = LoadTable(daily_analogs_flat, ToDateColumns(analogs_df))
    /\ status' = "aborted"
    /\ UNCHANGED <<runs, gdeltv2, gdelt_events_raw, plan, pc, gen_model,
                   gdelt_events_enriched, daily_country_topics, news_embeddings,
                   daily_top_entities, today_for_analogs, analogs_df, daily_analogs,
                   normalized, llm, daily_briefings, parsed_scores, daily_moodmap>>

\* the last statement of main: print("Pipeline complete.")
ReportCompletion ==
    /\ status = "running"
    /\ pc = Len(plan) + 1
    /\ status' = "complete"
    /\ UNCHANGED <<runs, gdeltv2, plan, pc, gen_model, tables>>

\* main is started again after an aborted run: a new process, the dataset as the
\* aborted run left it
Rerun ==
    /\ status = "aborted"
    /\ runs < MaxRuns
    /\ runs' = runs + 1
    /\ status' = "running"
    /\ pc' = 1
    /\ analogs_df' = <<>>
    /\ UNCHANGED <<gdeltv2, gdelt_events_raw, plan, gen_model, gdelt_events_enriched,
                   daily_country_topics, news_embeddings, daily_top_entities,
                   today_for_analogs, daily_analogs_flat, daily_analogs, normalized, llm,
                   daily_briefings, parsed_scores, daily_moodmap>>

\* the stages of main
Stage ==
    \/ InitGcp
    \/ IngestGdeltEvents
    \/ EnrichWithGkg
    \/ CreateDailyCountryTopics
    \/ CreateRemoteModels
    \/ GenerateNewsEmbeddings
    \/ CreateVectorSearchFunctions
    \/ CreateDailyTopEntities
    \/ CreateTodayForAnalogs
    \/ RunAnalogSearches
    \/ SaveDailyAnalogs
    \/ CreateDailyBriefings
    \/ CreateDailyMoodmap
    \/ PlotGlobalMoodmap

-----------------------------------------------------------------------------
(* Specification of the analog search: run_analog_searches and save_daily_analogs *)
(* over every cohort and every state of the embedding index                       *)

\* the keys of the index states: every date, two countries
Keys == Dates \X {"A", "B"}

\* the index states: any subset of the keys, each with any embedding
IndexStates ==
    {{EmbeddingRow(k[1], k[2], RenderTopicDoc(k[2], k[1], 1, <<"https://u1">>), e[k])
        : k \in {x \in Keys : e[x] >= 0}}
       : e \in [Keys -> -1..MaxEmb]}

\* the cohorts: the countries of one date
CohortStates ==
    {{[event_date |-> d, country |-> c] : c \in C} : d \in Dates, C \in SUBSET {"A", "B"}}

InitSearch ==
    /\ plan = <<"run_analog_searches", "save_daily_analogs">>
    /\ pc = 1
    /\ status = "running"
    /\ runs = 1
    /\ gdeltv2 = {}
    /\ gdelt_events_raw = {}
    /\ news_embeddings \in IndexStates
    /\ today_for_analogs \in CohortStates
    /\ gen_model = NoModel
    /\ gdelt_events_enriched = {}
    /\ daily_country_topics = {}
    /\ daily_top_entities = {}
    /\ llm = {}
    /\ analogs_df = <<>>
    /\ daily_analogs_flat = <<>>
    /\ daily_analogs = {}
    /\ normalized = {}
    /\ daily_briefings = {}
    /\ parsed_scores = {}
    /\ daily_moodmap = {}

NextSearch == RunAnalogSearches \/ SaveDailyAnalogs

SpecSearch == InitSearch /\ [][NextSearch]_vars

-----------------------------------------------------------------------------
(* Claims about the analog search *)

\* the cohort rows that have a row in daily_analogs, and the array of a cohort row
AnalogRowsOf(r) == {a \in daily_analogs : a.event_date = r.event_date /\ a.country = r.country}

\* the (past_date, snippet, distance) struct of a row that fn_similar_to_day returned
AsAnalog(x) == [past_date |-> x.event_date,
                snippet |-> Snippet(x.topic_doc, ANALOG_SNIP_CHARS),
                distance |-> x.distance]

\* the stage `name` of the plan has been called
StageDone(name) == \E i \in 1..Len(plan) : plan[i] = name /\ pc > i

SearchDone == StageDone("save_daily_analogs")

\* C1: every row run_analog_searches returns and every element of a daily_analogs
\* array has past_date strictly earlier than the row's event_date, whatever the
\* embedding index holds.
NoLeakage ==
    /\ \A i \in 1..Len(analogs_df) :
          analogs_df[i].past_date < ParseDate(analogs_df[i].event_date)
    /\ \A i \in 1..Len(daily_analogs_flat) :
          daily_analogs_flat[i].past_date < daily_analogs_flat[i].event_date
    /\ \A a \in daily_analogs : \A i \in 1..Len(a.analogs) :
          a.analogs[i].past_date < a.event_date

\* C1 witness: a finished search that produced analogs for a cohort row while the
\* index held a same-day record of another country and a later-dated record.
NoLeakageWitness ==
    /\ SearchDone
    /\ \E r \in today_for_analogs :
          /\ AnalogRowsOf(r) # {}
          /\ \E x \in news_embeddings : x.event_date = r.event_date /\ x.country # r.country
          /\ \E x \in news_embeddings : x.event_date > r.event_date

TopKRetained ==
    SearchDone =>
    \A r \in today_for_analogs :
      \E F \in FnSimilarToDay(news_embeddings, r.country, r.event_date) :
        LET Q == {x \in F : x.event_date < r.event_date}
            m == Cardinality(Q)
        IN  \E T \in SUBSET Q :
              /\ Cardinality(T) = Min(ANALOG_TOPK, m)
              /\ \A t \in T : \A q \in Q \ T : t.distance <= q.distance
              /\ IF T = {} THEN AnalogRowsOf(r) = {}
                 ELSE \E a \in daily_analogs :
                        /\ AnalogRowsOf(r) = {a}
                        /\ Len(a.analogs) = Cardinality(T)
                        /\ Range(a.analogs) = {AsAnalog(t) : t \in T}

\* C3 witness: the index is larger than the over-fetch, the search returned more
\* than K strictly earlier rows for a cohort row, and K of them were retained.
TopKRetainedWitness ==
    /\ SearchDone
    /\ Cardinality(news_embeddings) > VECTOR_TOP_K
    /\ \E r \in today_for_analogs :
          /\ \A F \in FnSimilarToDay(news_embeddings, r.country, r.event_date) :
                Cardinality({x \in F : x.event_date < r.event_date}) > ANALOG_TOPK
          /\ \E a \in AnalogRowsOf(r) : Len(a.analogs) = ANALOG_TOPK

-----------------------------------------------------------------------------
(* Specification of the cohort: from daily_country_topics through the embeddings, *)
(* the cohort selection and the analog search to the briefings                    *)

\* a row of daily_country_topics; avg_tone is NULL or a fraction of thousandths
TopicRow(event_date, country, headline_count, avg_tone) ==
    [event_date |-> event_date, country |-> country,
     headline_count |-> headline_count, avg_tone |-> avg_tone,
     topic_doc |-> RenderTopicDoc(country, event_date, headline_count, <<"https://u1">>)]

ZeroTone == Some([num |-> 0, den |-> 1])

\* the aggregate tables of the last two dates: any of the countries A and B with
\* one headline on the earlier date, any countries with any headline_count on the
\* later one
TopicTables ==
    {{TopicRow(MaxDate - 1, c, 1, ZeroTone) : c \in {x \in Countries : h[MaxDate - 1, x] = 1}}
       \cup {TopicRow(MaxDate, c, h[MaxDate, c], ZeroTone)
                : c \in {x \in Countries : h[MaxDate, x] > 0}}
       : h \in {g \in [{MaxDate - 1, MaxDate} \X Countries -> 0..MaxHeadline] :
                  /\ \A c \in Countries : g[MaxDate - 1, c] <= 1
                  /\ g[MaxDate - 1, "C"] = 0}}

\* the model answers a briefing prompt with text in the result column, or with nothing
BriefingOrNothing ==
    [briefing |-> {Response(Some("briefing"), NULL, NULL, NULL, NULL),
                   Response(NULL, NULL, NULL, NULL, NULL)},
     sentiment |-> {}, summary |-> {}]

InitCohort ==
    /\ plan = <<"generate_news_embeddings", "create_today_for_analogs",
                "run_analog_searches", "save_daily_analogs", "create_daily_briefings">>
    /\ pc = 1
    /\ status = "running"
    /\ runs = 1
    /\ gdeltv2 = {}
    /\ gdelt_events_raw = {}
    /\ gen_model = BriefingOrNothing
    /\ daily_country_topics \in TopicTables
    /\ news_embeddings = {}
    /\ today_for_analogs = {}
    /\ gdelt_events_enriched = {}
    /\ daily_top_entities = {}
    /\ llm = {}
    /\ analogs_df = <<>>
    /\ daily_analogs_flat = <<>>
    /\ daily_analogs = {}
    /\ normalized = {}
    /\ daily_briefings = {}
    /\ parsed_scores = {}
    /\ daily_moodmap = {}

NextCohort ==
    \/ GenerateNewsEmbeddings
    \/ CreateTodayForAnalogs
    \/ RunAnalogSearches
    \/ SaveDailyAnalogs
    \/ CreateDailyBriefings

SpecCohort == InitCohort /\ [][NextCohort]_vars

\* the aggregates of the single most recent event_date
LatestAggregates ==
    {r \in daily_country_topics : \A x \in daily_country_topics : x.event_date <= r.event_date}

\* C4: the cohort holds only aggregates of the most recent event_date, at most N
\* of them (all of them when there are at most N), and no excluded aggregate of
\* that date has a strictly larger headline_count than an included one.
CohortIsTopN ==
    StageDone("create_today_for_analogs") =>
        LET in == {r \in LatestAggregates : RowKey(r) \in {RowKey(t) : t \in today_for_analogs}}
        IN  /\ \A t \in today_for_analogs : \E r \in LatestAggregates : RowKey(r) = RowKey(t)
            /\ Cardinality(today_for_analogs) <= TOP_N
            /\ Cardinality(today_for_analogs) = Min(TOP_N, Cardinality(LatestAggregates))
            /\ \A x \in LatestAggregates \ in : \A y \in in :
                  ~(x.headline_count > y.headline_count)

\* C4 witness: a full cohort of N, chosen over an aggregate of the same date with
\* fewer headlines, while the table also holds aggregates of an earlier date.
CohortIsTopNWitness ==
    /\ StageDone("create_today_for_analogs")
    /\ Cardinality(today_for_analogs) = TOP_N
    /\ \E x \in LatestAggregates :
          /\ RowKey(x) \notin {RowKey(t) : t \in today_for_analogs}
          /\ \E y \in LatestAggregates :
                /\ RowKey(y) \in {RowKey(t) : t \in today_for_analogs}
                /\ y.headline_count > x.headline_count
    /\ daily_country_topics # LatestAggregates

\* the search can return no strictly earlier row for the cohort row r
NoCandidates(r) ==
    \A F \in FnSimilarToDay(news_embeddings, r.country, r.event_date) :
        {x \in F : x.event_date < r.event_date} = {}

NormalizedRowsOf(r) == {n \in normalized : RowKey(n) = RowKey(r)}

\* the cohort row r reached the briefing stage, or the LIMIT of to_summarize was
\* filled by N aggregates with at least as many headlines
BriefedUnlessCut(r) ==
    \/ NormalizedRowsOf(r) # {}
    \/ /\ Cardinality(normalized) = TOP_N
       /\ \A n \in normalized : \A x \in LatestAggregates :
             RowKey(x) = RowKey(r) => n.headline_count >= x.headline_count

\* C5 as stated: a cohort country without historical candidates has a daily_analogs
\* row with an empty array and analogs_txt "None", and reaches the briefing stage.
NoCandidatesEmptyArray ==
    \A r \in today_for_analogs :
        NoCandidates(r) /\ StageDone("create_daily_briefings") =>
            /\ \E a \in AnalogRowsOf(r) : a.analogs = <<>> /\ a.analogs_txt = <<"None">>
            /\ BriefedUnlessCut(r)

\* C5 amended: a cohort country without historical candidates has no row in
\* daily_analogs_flat and none in daily_analogs; the briefing stage reads its
\* analogs_txt as "None"; it reaches the briefing stage unless the LIMIT is filled
\* by N aggregates with at least as many headlines, and its briefing is stored
\* whenever the model's response holds a text.
NoCandidatesStillBriefed ==
    \A r \in today_for_analogs :
        NoCandidates(r) =>
            /\ StageDone("save_daily_analogs") =>
                  /\ AnalogRowsOf(r) = {}
                  /\ \A i \in 1..Len(daily_analogs_flat) :
                        RowKey(daily_analogs_flat[i]) # RowKey(r)
            /\ StageDone("create_daily_briefings") =>
                  /\ \A n \in NormalizedRowsOf(r) : n.analogs_txt = <<"None">>
                  /\ BriefedUnlessCut(r)
                  /\ \A n \in NormalizedRowsOf(r) : \E x \in llm :
                        /\ RowKey(x) = RowKey(r)
                        /\ ~IsNull(x.t.ml_generate_text_llm_result) =>
                              \E b \in daily_briefings : RowKey(b) = RowKey(r)

\* C5 witness: a briefing is stored for a cohort country without historical
\* candidates, next to one for a cohort country that has analogs.
NoCandidatesStillBriefedWitness ==
    /\ StageDone("create_daily_briefings")
    /\ \E r \in today_for_analogs :
          /\ NoCandidates(r)
          /\ \E n \in NormalizedRowsOf(r) : n.analogs_txt = <<"None">>
          /\ \E b \in daily_briefings : RowKey(b) = RowKey(r)

-----------------------------------------------------------------------------
(* Specification of the briefings: create_daily_briefings over every shape of *)
(* response of the remote model                                               *)

\* every combination of null and non-null values of the result column and of the
\* four JSON paths
AnyShape ==
    [briefing |-> {Response(a, b, c, d, e) :
                      a \in {NULL, Some("a")}, b \in {NULL, Some("b")},
                      c \in {NULL, Some("c")}, d \in {NULL, Some("d")},
                      e \in {NULL, Some("e")}},
     sentiment |-> {}, summary |-> {}]

InitBrief ==
    /\ plan = <<"create_daily_briefings">>
    /\ pc = 1
    /\ status = "running"
    /\ runs = 1
    /\ gdeltv2 = {}
    /\ gdelt_events_raw = {}
    /\ gen_model = AnyShape
    /\ \E C \in SUBSET Countries, h \in [Countries -> 1..MaxHeadline] :
          daily_country_topics = {TopicRow(MaxDate, c, h[c], ZeroTone) : c \in C}
    /\ news_embeddings = {}
    /\ today_for_analogs = {}
    /\ gdelt_events_enriched = {}
    /\ daily_top_entities = {}
    /\ llm = {}
    /\ analogs_df = <<>>
    /\ daily_analogs_flat = <<>>
    /\ daily_analogs = {}
    /\ normalized = {}
    /\ daily_briefings = {}
    /\ parsed_scores = {}
    /\ daily_moodmap = {}

NextBrief == CreateDailyBriefings

SpecBrief == InitBrief /\ [][NextBrief]_vars

BriefingRowsOf(x) == {b \in daily_briefings : RowKey(b) = RowKey(x)}

\* C6: the briefing text is the value of the first non-null path in the order
\* result column, candidates[0].content.parts[0].text, candidates[0].content[0].text,
\* predictions, text; a response with every path null leaves no row (and no row
\* with a null text), and the stage still completes with the other rows.
FirstNonNullPath ==
    StageDone("create_daily_briefings") =>
        /\ \A b \in daily_briefings : ~IsNull(b.briefing_text)
        /\ \A b \in daily_briefings : \E x \in llm : RowKey(x) = RowKey(b)
        /\ \A x \in llm :
              LET a == x.t.ml_generate_text_llm_result
                  p == x.t.candidates_content_parts_text
                  c == x.t.candidates_content_text
                  d == x.t.predictions_content
                  e == x.t.text
                  text(v) == \E b \in daily_briefings :
                                BriefingRowsOf(x) = {b} /\ b.briefing_text = v
              IN  /\ ~IsNull(a) => text(a)
                  /\ IsNull(a) /\ ~IsNull(p) => text(p)
                  /\ IsNull(a) /\ IsNull(p) /\ ~IsNull(c) => text(c)
                  /\ IsNull(a) /\ IsNull(p) /\ IsNull(c) /\ ~IsNull(d) => text(d)
                  /\ IsNull(a) /\ IsNull(p) /\ IsNull(c) /\ IsNull(d) /\ ~IsNull(e) => text(e)
                  /\ IsNull(a) /\ IsNull(p) /\ IsNull(c) /\ IsNull(d) /\ IsNull(e)
                        => BriefingRowsOf(x) = {}

\* C6 witness: the stage completed; one response had every path null and left no
\* row, another had only the last two paths and its row holds the predictions text.
FirstNonNullPathWitness ==
    /\ StageDone("create_daily_briefings")
    /\ \E x \in llm :
          /\ x.t = Response(NULL, NULL, NULL, NULL, NULL)
          /\ BriefingRowsOf(x) = {}
    /\ \E x \in llm :
          /\ x.t = Response(NULL, NULL, NULL, Some("d"), Some("e"))
          /\ \E b \in BriefingRowsOf(x) : b.briefing_text = Some("d")

-----------------------------------------------------------------------------
(* Specification of the mood blender: create_daily_moodmap over every short *)
(* sentiment response and a range of tones                                  *)

Alphabet == {"-", ".", "0", "3", "4", "x"}

SentimentTexts ==
    UNION {[1..n -> Alphabet] : n \in 0..MaxTextLen}
      \cup {<<"0", ".", "3", "0">>, <<"-", "0", ".", "4">>, <<"-", "3", ".", "0", "4">>,
            <<"x", "-", "0", ".", "4", "x", "0", ".", "3">>,
            <<"0", ".", "3", "0", ".", "4">>,
            <<"3", "-", "0", ".", "4", "4", "3", "4">>}

\* avg_tone values, in thousandths
Tones ==
    {NULL} \cup {Some([num |-> n, den |-> 1]) : n \in {-10000, -2000, 0, 1, 5000, 10000, 30000}}
           \cup {Some([num |-> 1000, den |-> 3])}

TextOnly(text) == Response(text, NULL, NULL, NULL, NULL)

\* the model answers a sentiment prompt with any of the texts or with nothing
AnySentiment ==
    [briefing |-> {},
     sentiment |-> {TextOnly(Some(t)) : t \in SentimentTexts} \cup {TextOnly(NULL)},
     summary |-> {TextOnly(Some(<<"s">>)), TextOnly(NULL)}]

FewSentiments ==
    [briefing |-> {},
     sentiment |-> {TextOnly(Some(<<"0", ".", "4">>)), TextOnly(Some(<<"x">>)), TextOnly(NULL)},
     summary |-> {TextOnly(Some(<<"s">>))}]

BriefingRow(event_date, country) ==
    [event_date |-> event_date, country |-> country, briefing_text |-> Some("briefing")]

InitMood ==
    /\ plan = <<"create_daily_moodmap">>
    /\ pc = 1
    /\ status = "running"
    /\ runs = 1
    /\ gdeltv2 = {}
    /\ gdelt_events_raw = {}
    /\ \/ /\ gen_model = AnySentiment
          /\ daily_briefings = {BriefingRow(MaxDate, "A")}
          /\ \/ daily_country_topics = {}
             \/ \E t \in Tones : daily_country_topics = {TopicRow(MaxDate, "A", 1, t)}
       \/ /\ gen_model = FewSentiments
          /\ daily_briefings = {BriefingRow(MaxDate, "A"), BriefingRow(MaxDate, "B")}
          /\ \E t \in Tones :
                daily_country_topics = {TopicRow(MaxDate, "A", 1, t),
                                        TopicRow(MaxDate, "B", 1, ZeroTone)}
    /\ news_embeddings = {}
    /\ today_for_analogs = {}
    /\ gdelt_events_enriched = {}
    /\ daily_top_entities = {}
    /\ llm = {}
    /\ analogs_df = <<>>
    /\ daily_analogs_flat = <<>>
    /\ daily_analogs = {}
    /\ normalized = {}
    /\ parsed_scores = {}
    /\ daily_moodmap = {}

NextMood == CreateDailyMoodmap

SpecMood == InitMood /\ [][NextMood]_vars

\* str is a signed decimal number: an optional minus sign, digits, a point, digits
IsDecimal(str) ==
    /\ str # <<>>
    /\ LET body == IF str[1] = "-" THEN Tail(str) ELSE str
       IN  \E k \in 2..(Len(body) - 1) :
              /\ body[k] = "."
              /\ \A i \in 1..Len(body) : i # k => body[i] \in Digits

\* text[i..j] is the first signed decimal number of text: none starts further
\* left, and none that starts at i is longer
IsFirstDecimal(text, i, j) ==
    /\ IsDecimal(SubSeq(text, i, j))
    /\ \A k \in 1..Len(text), l \in 1..Len(text) :
          k <= l /\ IsDecimal(SubSeq(text, k, l)) => k > i \/ (k = i /\ l <= j)

HasDecimal(text) ==
    /\ ~IsNull(text)
    /\ \E i \in 1..Len(text[1]), j \in 1..Len(text[1]) :
          i <= j /\ IsDecimal(SubSeq(text[1], i, j))

\* the fraction v is the number the string str denotes
Denotes(str, v) ==
    LET neg == str[1] = "-"
        body == IF neg THEN Tail(str) ELSE str
        dot == CHOOSE k \in 1..Len(body) : body[k] = "."
        whole == DigitsValue(SubSeq(body, 1, dot - 1))
        frac == SubSeq(body, dot + 1, Len(body))
    IN  /\ v.den = Pow10(Len(frac))
        /\ Abs(v.num) = whole * v.den + DigitsValue(frac)
        /\ neg => v.num <= 0
        /\ ~neg => v.num >= 0

MoodRowsOf(p) == {m \in daily_moodmap : RowKey(m) = RowKey(p)}

\* the sentiment_score of every parsed row is the first signed decimal number of
\* the response, and NULL (never zero, never a second response) without one
SentimentIsFirstDecimal ==
    /\ \A b \in JoinLatest(daily_briefings) :
          Cardinality({p \in parsed_scores : RowKey(p) = RowKey(b)}) = 1
    /\ \A p \in parsed_scores :
          /\ HasDecimal(p.llm_text) =>
                /\ ~IsNull(p.sentiment_score)
                /\ \E i \in 1..Len(p.llm_text[1]), j \in 1..Len(p.llm_text[1]) :
                      /\ i <= j
                      /\ IsFirstDecimal(p.llm_text[1], i, j)
                      /\ Denotes(SubSeq(p.llm_text[1], i, j), p.sentiment_score[1])
          /\ ~HasDecimal(p.llm_text) => IsNull(p.sentiment_score)

\* C7 as stated: the sentiment_score is the first signed decimal number of the
\* response, and a row is dropped exactly when the response holds no such number.
DroppedIffNoNumber ==
    StageDone("create_daily_moodmap") =>
        /\ SentimentIsFirstDecimal
        /\ \A p \in parsed_scores : MoodRowsOf(p) = {} <=> ~HasDecimal(p.llm_text)

\* C7 amended: the sentiment_score is the first match of -?\d+\.\d+ in the
\* response (digits, a point, digits: an integer such as 1 does not match), and a
\* row is dropped exactly when the response holds no such number or the avg_tone
\* of its aggregate is NULL; a missing sentiment stays NULL.
DroppedIffNoNumberOrNoTone ==
    StageDone("create_daily_moodmap") =>
        /\ SentimentIsFirstDecimal
        /\ \A p \in parsed_scores :
              MoodRowsOf(p) = {} <=> (~HasDecimal(p.llm_text) \/ IsNull(p.avg_tone))
        /\ \A m \in daily_moodmap : \E p \in parsed_scores : RowKey(p) = RowKey(m)

\* C7 witness: of two responses, the one without a number lost its row and the
\* other kept it; or a response with two numbers was scored by the first.
DroppedIffNoNumberOrNoToneWitness ==
    /\ StageDone("create_daily_moodmap")
    /\ \/ /\ \E p \in parsed_scores : p.llm_text = Some(<<"x">>) /\ MoodRowsOf(p) = {}
          /\ \E p \in parsed_scores :
                p.llm_text = Some(<<"0", ".", "4">>) /\ MoodRowsOf(p) # {}
       \/ \E p \in parsed_scores :
             /\ p.llm_text = Some(<<"x", "-", "0", ".", "4", "x", "0", ".", "3">>)
             /\ p.sentiment_score = Some([num |-> -4, den |-> 10])
             /\ MoodRowsOf(p) # {}

\* m is n / d (d > 0) rounded to the nearest integer, halfway cases away from zero
IsRounded(m, n, d) ==
    /\ 2 * Abs(m * d - n) <= d
    /\ 2 * Abs(m * d - n) = d => Abs(m * d) > Abs(n)

\* C8: mood_score = round((sentiment_score + avg_tone / 10) / 2, 4), so that
\* -1 <= mood_score <= 1 whenever sentiment_score is in [-1, 1] and avg_tone is in
\* [-10, 10]; sentiment 0.4 with avg_tone -2 gives 0.1, sentiment 0.30 with
\* avg_tone 5.0 gives 0.4.  mood_score is in ten-thousandths.
MoodIsBlend ==
    \A m \in daily_moodmap :
        /\ ~IsNull(m.mood_score)
        /\ \E p \in parsed_scores :
              /\ RowKey(p) = RowKey(m)
              /\ ~IsNull(p.sentiment_score)
              /\ ~IsNull(p.avg_tone)
              /\ LET s == p.sentiment_score[1]
                     t == p.avg_tone[1]
                     mood == m.mood_score[1]
                 IN  /\ IsRounded(mood, s.num * t.den * 10000 + t.num * s.den,
                                   2 * s.den * t.den)
                     /\ Abs(s.num) <= s.den /\ Abs(t.num) <= 10000 * t.den
                           => -10000 <= mood /\ mood <= 10000
                     /\ p.llm_text = Some(<<"0", ".", "4">>) /\ t = [num |-> -2000, den |-> 1]
                           => mood = 1000
                     /\ p.llm_text = Some(<<"0", ".", "3", "0">>) /\ t = [num |-> 5000, den |-> 1]
                           => mood = 4000

\* C8 witness: the response "0.30" with avg_tone 5.0 is stored with mood_score 0.4.
MoodIsBlendWitness ==
    /\ StageDone("create_daily_moodmap")
    /\ \E p \in parsed_scores :
          /\ p.llm_text = Some(<<"0", ".", "3", "0">>)
          /\ p.avg_tone = Some([num |-> 5000, den |-> 1])
          /\ \E m \in MoodRowsOf(p) : m.mood_score = Some(4000)

-----------------------------------------------------------------------------
(* Specification of the entity ranker: create_daily_top_entities over one or *)
(* two enriched events of a country and day                                  *)

ThemeTags == {<<"T", "A", "X", ",", "1">>, <<"t", "a", "x">>, <<"E", "C", "O", "N">>,
              <<"W", "B", "_", "1">>}

PersonTags == {<<"T", "w", "i", "t", "t", "e", "r", ",", "1">>, <<"A", "l">>,
               <<"A", "n", "n", ",", "3">>, <<"A", "N", "N">>, <<"B", "o", "b">>}

TagLists(tags) == UNION {[1..n -> tags] : n \in 0..MaxTags}

EnrichedRow(url, themes, persons) ==
    [event_date |-> MaxDate, country |-> "A", url |-> url,
     themes |-> themes, persons |-> persons]

InitEntities ==
    /\ plan = <<"create_daily_top_entities">>
    /\ pc = 1
    /\ status = "running"
    /\ runs = 1
    /\ gdeltv2 = {}
    /\ gdelt_events_raw = {}
    /\ gen_model = NoModel
    /\ \E t1 \in TagLists(ThemeTags), p1 \in TagLists(PersonTags) :
          \/ gdelt_events_enriched = {EnrichedRow("u1", t1, p1)}
          \/ \E t2 \in {<<>>, <<<<"t", "a", "x">>>>, <<<<"E", "C", "O", "N">>>>},
                p2 \in {<<>>, <<<<"E", "v", "e">>>>, <<<<"Y", "O", "U", "T", "U", "B", "E">>>>} :
                gdelt_events_enriched = {EnrichedRow("u1", t1, p1), EnrichedRow("u2", t2, p2)}
    /\ daily_country_topics = {}
    /\ news_embeddings = {}
    /\ today_for_analogs = {}
    /\ daily_top_entities = {}
    /\ llm = {}
    /\ analogs_df = <<>>
    /\ daily_analogs_flat = <<>>
    /\ daily_analogs = {}
    /\ normalized = {}
    /\ daily_briefings = {}
    /\ parsed_scores = {}
    /\ daily_moodmap = {}

NextEntities == CreateDailyTopEntities

SpecEntities == InitEntities /\ [][NextEntities]_vars

\* C9: no element of a top_people list is shorter than 3 characters or is, in any
\* letter case, one of the six platform names.
NoNoisePeople ==
    \A r \in daily_top_entities : \A i \in 1..Len(r.top_people) :
        /\ Len(r.top_people[i].person) >= 3
        /\ Lower(r.top_people[i].person) \notin Denylist

\* C9 witness: the events carried the tags "Twitter,1" and "Al" and a third
\* person, and only the third is listed.
NoNoisePeopleWitness ==
    /\ StageDone("create_daily_top_entities")
    /\ \E ev \in gdelt_events_enriched :
          /\ ev.themes # <<>>
          /\ ev.persons = <<<<"T", "w", "i", "t", "t", "e", "r", ",", "1">>, <<"A", "l">>>>
    /\ \E r \in daily_top_entities :
          /\ Len(r.top_people) = 1
          /\ r.top_people[1].person = <<"e", "v", "e">>

\* the occurrences of the tags of one kind in the events of a country and day:
\* one per event and position, labelled as the ranker labels them
TagOccurrences(g, kind) ==
    UNION {{[label |-> EntityLabel(IF kind = "themes" THEN ev.themes[i] ELSE ev.persons[i]),
             at |-> <<(IF ev.url = "u1" THEN 1 ELSE 2), i>>]
              : i \in 1..Len(IF kind = "themes" THEN ev.themes ELSE ev.persons)}
             : ev \in {x \in gdelt_events_enriched : RowKey(x) = g /\ InWindow(x.event_date)}}

Frequency(occ, label) == Cardinality({o \in occ : o.label = label})

Before(a, b) == a[1] < b[1] \/ (a[1] = b[1] /\ a[2] < b[2])

FirstSeen(occ, label) ==
    (CHOOSE o \in occ : o.label = label /\
        \A o2 \in occ : o2.label = label => (o2 = o \/ Before(o.at, o2.at))).at

\* the list is the at most ENTITY_LIMIT most frequent labels of occ, with their
\* frequencies, by frequency descending and, at equal frequency, first seen first
IsTopByFrequency(list, occ) ==
    LET labels == {o.label : o \in occ}
    IN  /\ Len(list) = Min(ENTITY_LIMIT, Cardinality(labels))
        /\ \A i \in 1..Len(list) :
              /\ list[i][1] \in labels
              /\ list[i][2] = Frequency(occ, list[i][1])
        /\ \A i, j \in 1..Len(list) : i < j =>
              /\ list[i][1] # list[j][1]
              /\ \/ list[i][2] > list[j][2]
                 \/ /\ list[i][2] = list[j][2]
                    /\ Before(FirstSeen(occ, list[i][1]), FirstSeen(occ, list[j][1]))
        /\ \A x \in labels \ {list[i][1] : i \in 1..Len(list)} : \A i \in 1..Len(list) :
              \/ list[i][2] > Frequency(occ, x)
              \/ /\ list[i][2] = Frequency(occ, x)
                 /\ Before(FirstSeen(occ, list[i][1]), FirstSeen(occ, x))

\* the list of one kind that daily_top_entities holds for a country and day
ListOf(g, kind) ==
    IF \E r \in daily_top_entities : RowKey(r) = g
    THEN LET r == CHOOSE x \in daily_top_entities : RowKey(x) = g
         IN  IF kind = "themes"
             THEN [i \in 1..Len(r.top_themes) |-> <<r.top_themes[i].theme, r.top_themes[i].c>>]
             ELSE [i \in 1..Len(r.top_people) |-> <<r.top_people[i].person, r.top_people[i].c>>]
    ELSE <<>>

\* C10: for each country and day, top_themes is the list of the at most
\* ENTITY_LIMIT most frequent theme labels, a label's frequency being the number
\* of its occurrences in the exploded theme lists of the events, by frequency
\* descending with ties in first-seen order; and top_people likewise over the
\* person labels that pass the noise filter.
TopByFrequency ==
    StageDone("create_daily_top_entities") =>
        \A g \in {RowKey(ev) : ev \in gdelt_events_enriched} :
            /\ IsTopByFrequency(ListOf(g, "themes"), TagOccurrences(g, "themes"))
            /\ IsTopByFrequency(ListOf(g, "people"),
                                {o \in TagOccurrences(g, "people") : CleanPeopleWhere(o.label)})

\* C11: every country and day with at least one theme tag in the enriched events
\* of the window has a row in daily_top_entities, also without any qualifying
\* person; its top_people list is then empty and its top_themes list is not.
ThemesAloneGiveRow ==
    StageDone("create_daily_top_entities") =>
        \A g \in {RowKey(ev) : ev \in gdelt_events_enriched} :
            TagOccurrences(g, "themes") # {} =>
                \E r \in daily_top_entities :
                    /\ RowKey(r) = g
                    /\ r.top_themes # <<>>
                    /\ ({o \in TagOccurrences(g, "people") : CleanPeopleWhere(o.label)} = {}
                          => r.top_people = <<>>)

-----------------------------------------------------------------------------
(* Specification of the aggregator: create_daily_country_topics over a raw   *)
(* events table of up to MaxRaw rows                                         *)

RawRow(id, event_date, country, url, tone) ==
    [id |-> id, event_date |-> event_date, country |-> country, url |-> url, tone |-> tone]

\* the rows an event can be: outside or inside the window, with or without a
\* country, a url and a tone
RawRows(id) ==
    {RawRow(id, d, c, u, t) : d \in {MaxDate - WINDOW_DAYS - 1, MaxDate},
                              c \in {NULL, Some("A"), Some("B")},
                              u \in {NULL, Some("https://u1"), Some("http://u2")},
                              t \in {NULL, Some(-2000), Some(1000)}}

RECURSIVE RawTables(_)
RawTables(n) ==
    IF n = 0 THEN {{}}
    ELSE LET less == RawTables(n - 1)
         IN  less \cup {t \cup {r} : t \in {x \in less : Cardinality(x) = n - 1}, r \in RawRows(n)}

InitTopics ==
    /\ plan = <<"create_daily_country_topics">>
    /\ pc = 1
    /\ status = "running"
    /\ runs = 1
    /\ gdeltv2 = {}
    /\ gdelt_events_raw \in RawTables(MaxRaw)
    /\ gen_model = NoModel
    /\ gdelt_events_enriched = {}
    /\ daily_country_topics = {}
    /\ news_embeddings = {}
    /\ today_for_analogs = {}
    /\ daily_top_entities = {}
    /\ llm = {}
    /\ analogs_df = <<>>
    /\ daily_analogs_flat = <<>>
    /\ daily_analogs = {}
    /\ normalized = {}
    /\ daily_briefings = {}
    /\ parsed_scores = {}
    /\ daily_moodmap = {}

NextTopics == CreateDailyCountryTopics

SpecTopics == InitTopics /\ [][NextTopics]_vars

\* the statistics of a daily_country_topics row
Statistics(r) == <<r.event_date, r.country, r.headline_count, r.avg_tone, r.min_tone, r.max_tone>>

\* C12: daily_country_topics is computed from the raw events of the window that
\* have a country and a url only: taking the events without a country or without
\* a url out of gdelt_events_raw changes the headline_count and the tone
\* statistics of no group.
OnlyCompleteEventsCount ==
    StageDone("create_daily_country_topics") =>
        {Statistics(r) : r \in daily_country_topics}
          = UNION {{Statistics(r) : r \in t}
                     : t \in CountryDayQuery({x \in gdelt_events_raw :
                                                 ~IsNull(x.country) /\ ~IsNull(x.url)})}

\* C15: the countries that create_daily_briefings prompts for are the cohort of
\* create_today_for_analogs, also with ties in headline_count at the N-th place;
\* so no prompted country reads analogs_txt "None" because it was not searched.
BriefedIsCohort ==
    StageDone("create_daily_briefings") =>
        /\ {RowKey(n) : n \in normalized} = {RowKey(r) : r \in today_for_analogs}
        /\ \A n \in normalized :
              n.analogs_txt = <<"None">> => \E r \in today_for_analogs : RowKey(r) = RowKey(n)

-----------------------------------------------------------------------------
(* Specification of the driver: python pipeline.py, or main called with the  *)
(* stage functions bound, over a dataset that an earlier run on older data   *)
(* left behind; a stage can fail, and an aborted run is started again        *)

Event(id, date, action, actor1, tone, url) ==
    [GLOBALEVENTID |-> id, SQLDATE |-> date, ActionGeo_CountryCode |-> action,
     Actor1Geo_CountryCode |-> actor1, Actor2Geo_CountryCode |-> NULL,
     AvgTone |-> tone, SOURCEURL |-> url]

\* today's events of A and B, an event without a country and one older than the
\* ingestion window; optionally yesterday's event of A and today's event of C,
\* which has neither tone nor url
SourceEvents ==
    LET always == {Event(1, MaxDate, Some("A"), NULL, Some(5000), Some("https://u1")),
                   Event(2, MaxDate, NULL, Some("B"), Some(-2000), Some("http://u2")),
                   Event(4, MaxDate, NULL, NULL, Some(1000), Some("https://u1")),
                   Event(6, MaxDate - INGEST_DAYS - 1, Some("A"), NULL, Some(0), Some("https://u1"))}
        past == Event(3, MaxDate - 1, Some("A"), NULL, Some(0), Some("https://u1"))
        untoned == Event(5, MaxDate, Some("C"), NULL, NULL, NULL)
    IN  {always \cup x : x \in SUBSET {past, untoned}}

SourceGkg ==
    {[date |-> MaxDate, DocumentIdentifier |-> "https://u1",
      V2Themes |-> Some(<<<<"T", "A", "X", ",", "1">>, <<"E", "C", "O", "N">>>>),
      V2Persons |-> Some(<<<<"A", "n", "n", ",", "3">>, <<"A", "l">>>>)]}

\* the endpoint answers a briefing prompt with a text or with nothing, a sentiment
\* prompt with 0.30 or with a word
Endpoint ==
    [briefing |-> {Response(Some("briefing"), NULL, NULL, NULL, NULL),
                   Response(NULL, NULL, NULL, NULL, NULL)},
     sentiment |-> {TextOnly(Some(<<"0", ".", "3", "0">>)), TextOnly(Some(<<"x">>))},
     summary |-> {TextOnly(Some(<<"s">>))}]

\* the country of the rows that the earlier run left in every table
Stale == "Z"

InitDriver(sources) ==
    /\ plan = MainPlan
    /\ pc = 1
    /\ status \in {"loading", "running"}
    /\ runs = 1
    /\ \E ev \in sources : gdeltv2 = [events |-> ev, gkg |-> SourceGkg, endpoint |-> Endpoint]
    /\ gen_model = NoModel
    /\ gdelt_events_raw = {RawRow(9, MaxDate - 1, Some(Stale), Some("https://u1"), Some(0))}
    /\ gdelt_events_enriched =
          {[id |-> 9, event_date |-> MaxDate - 1, country |-> Stale, url |-> "https://u1",
            tone |-> Some(0), themes |-> <<>>, persons |-> <<>>]}
    /\ daily_country_topics = {TopicRow(MaxDate - 1, Stale, 1, ZeroTone)}
    /\ news_embeddings =
          {EmbeddingRow(MaxDate - 1, Stale,
                        RenderTopicDoc(Stale, MaxDate - 1, 1, <<"https://u1">>), 0)}
    /\ daily_top_entities =
          {[event_date |-> MaxDate - 1, country |-> Stale, top_themes |-> <<>>,
            top_people |-> <<>>]}
    /\ today_for_analogs = {[event_date |-> MaxDate - 1, country |-> Stale]}
    /\ analogs_df = <<>>
    /\ daily_analogs_flat =
          <<[event_date |-> MaxDate - 1, country |-> Stale, past_date |-> MaxDate - 2,
             snippet |-> <<"old">>, distance |-> 0]>>
    /\ daily_analogs =
          {[event_date |-> MaxDate - 1, country |-> Stale,
            analogs |-> <<[past_date |-> MaxDate - 2, snippet |-> <<"old">>, distance |-> 0]>>,
            analogs_txt |-> <<ToString(MaxDate - 2), ": ", "old">>]}
    /\ normalized = {}
    /\ llm = {}
    /\ daily_briefings = {BriefingRow(MaxDate - 1, Stale)}
    /\ parsed_scores = {}
    /\ daily_moodmap =
          {[event_date |-> MaxDate - 1, country |-> Stale, mood_score |-> Some(0),
            briefing_text |-> Some("briefing"), summary_ref |-> Some(<<"s">>)]}

InitRun == InitDriver(SourceEvents)

NextRun ==
    \/ LoadPipeline
    \/ Stage
    \/ StageFails
    \/ SaveDailyAnalogsFails
    \/ ReportCompletion

SpecRun == InitRun /\ [][NextRun]_vars

(* Specification of the rerun: the same driver over the events of today and *)
(* yesterday, started again after an aborted run                             *)

InitRerun == InitDriver({ev \in SourceEvents : Cardinality(ev) = 5 /\ \E e \in ev : e.SQLDATE = MaxDate - 1})

NextRerun == NextRun \/ Rerun

SpecRerun == InitRerun /\ [][NextRerun]_vars

\* the tables, models and functions written so far by the run
Written == UNION {Writes[plan[i]] : i \in 1..(pc - 1)}

\* C13: a run calls the stages of main in their order, each at most once, until
\* it reports completion or a stage fails; a stage reads only what the run has
\* already written; after a failure no further stage is called, the failed one is
\* not called again and completion is never reported.
DriverRunsStagesInOrder ==
    /\ [](status \notin {"loading", "running"} =>
             \/ status = "complete" /\ pc = Len(plan) + 1
             \/ status = "aborted" /\ pc <= Len(plan))
    /\ [](status = "running" /\ pc <= Len(plan) => Reads[plan[pc]] \subseteq Written)
    /\ [][runs' = runs => pc' \in {pc, pc + 1}]_vars
    /\ [][status = "aborted" /\ runs' = runs => pc' = pc /\ status' = "aborted"]_vars

\* no table holds a row of the earlier run
NoStaleRow ==
    /\ \A r \in gdelt_events_raw : r.country # Some(Stale)
    /\ \A r \in gdelt_events_enriched \cup daily_country_topics \cup news_embeddings
                  \cup daily_top_entities \cup today_for_analogs \cup daily_analogs
                  \cup daily_briefings \cup daily_moodmap : r.country # Stale
    /\ \A i \in 1..Len(daily_analogs_flat) : daily_analogs_flat[i].country # Stale

\* every table is a result that its stage can produce from the tables it reads, as
\* they are now: the dataset is one that a single uninterrupted run produces
FreshDataset ==
    /\ gdelt_events_raw = IngestQuery(gdeltv2.events)
    /\ gdelt_events_enriched = EnrichQuery(gdelt_events_raw, gdeltv2.gkg)
    /\ daily_country_topics \in CountryDayQuery(gdelt_events_raw)
    /\ gen_model = gdeltv2.endpoint
    /\ \E e \in [daily_country_topics -> 0..MaxEmb] :
          news_embeddings = {EmbeddingRow(r.event_date, r.country, r.topic_doc, e[r])
                                : r \in daily_country_topics}
    /\ daily_top_entities \in TopEntitiesQuery(gdelt_events_enriched)
    /\ today_for_analogs \in TodayForAnalogsQuery(daily_country_topics, TOP_N)
    /\ \A i \in 1..Len(analogs_df) :
          \E r \in today_for_analogs :
             \E q \in SimQuery(news_embeddings, r.country, r.event_date) :
                analogs_df[i] \in Range(q)
    /\ daily_analogs_flat = ToDateColumns(analogs_df)
    /\ daily_analogs \in DailyAnalogsQuery(daily_analogs_flat, ANALOG_TOPK)
    /\ normalized \in NormalizedQuery(daily_country_topics, daily_analogs, TOP_N)
    /\ {RowKey(x) : x \in llm} = {RowKey(n) : n \in normalized}
    /\ \A x \in llm : x.t \in gen_model.briefing
    /\ daily_briefings =
          {[event_date |-> x.event_date, country |-> x.country,
            briefing_text |-> BriefingText(x.t)]
             : x \in {y \in llm : FinalWhere(BriefingText(y.t))}}
    /\ {RowKey(p) : p \in parsed_scores}
          = {RowKey(j) : j \in JoinedData(daily_briefings, daily_country_topics)}
    /\ {RowKey(m) : m \in daily_moodmap}
          = {RowKey(p) : p \in {x \in parsed_scores :
                                  MoodWhere(MoodScore(x.sentiment_score, x.avg_tone))}}

\* C14: when a run that was started again after an aborted run completes, every
\* table is one that a single uninterrupted run over the same source produces,
\* and no row of the earlier run or of the aborted run is left in any table.
RerunLeavesFreshDataset ==
    status = "complete" => NoStaleRow /\ FreshDataset

\* C14 witness: the second run completed after the first was aborted, with analogs
\* and mood rows in the dataset.
RerunLeavesFreshDatasetWitness ==
    /\ status = "complete"
    /\ runs = 2
    /\ daily_analogs # {}
    /\ daily_moodmap # {}

\* the aggregates of the latest date of daily_country_topics, as keys
LatestKeys == {RowKey(r) : r \in JoinLatest(daily_country_topics)}

\* C16: when a run has completed, daily_moodmap holds at most one row per
\* (event_date, country), every row carries the latest event_date, has the key of
\* a daily_briefings row, which is one of at most N aggregates of the latest date,
\* so there are at most N rows, and every row has a mood_score; a row whose
\* avg_tone is NULL is not there.
MoodmapWellFormed ==
    status = "complete" =>
        /\ \A m1, m2 \in daily_moodmap : RowKey(m1) = RowKey(m2) => m1 = m2
        /\ \A m \in daily_moodmap :
              /\ Some(m.event_date) = MaxEventDate(daily_country_topics)
              /\ \E b \in daily_briefings : RowKey(b) = RowKey(m)
              /\ ~IsNull(m.mood_score)
        /\ \A b \in daily_briefings : RowKey(b) \in LatestKeys
        /\ Cardinality({RowKey(b) : b \in daily_briefings}) <= TOP_N
        /\ Cardinality(daily_moodmap) <= TOP_N
        /\ \A p \in parsed_scores : IsNull(p.avg_tone) => MoodRowsOf(p) = {}

\* C16 witness: a run completed over more than N aggregates of the latest date; a
\* briefed country without avg_tone and one whose sentiment response holds no
\* number are missing from daily_moodmap, another one is there.
MoodmapWellFormedWitness ==
    /\ status = "complete"
    /\ Cardinality(LatestKeys) > TOP_N
    /\ daily_moodmap # {}
    /\ \E p \in parsed_scores : IsNull(p.avg_tone) /\ ~IsNull(p.sentiment_score)
    /\ Cardinality(parsed_scores) = TOP_N

====
